---- MODULE Spec2Model ----
(***************************************************************************)
(* Channel mutations of iris (src/iris/mutations/channel.js).              *)
(*                                                                         *)
(* The resolvers of the module are modelled as commands over the stored    *)
(* records (channels, usersChannels, usersCommunities, threads).  The      *)
(* gateway functions they import from ../models/* are not part of the      *)
(* sources at hand; they are modelled from the data model and the gateway  *)
(* contract of the specification.  Each resolver is an operator that maps  *)
(* the stored records and its arguments to the records after the command,  *)
(* the value it resolves to and the gateway writes / queue jobs it issued. *)
(*                                                                         *)
(* Spec serves one request at a time, each resolver running to completion; *)
(* SpecAll does the same with all eight resolvers and fewer callers; SpecC *)
(* serves requests together and interleaves them at the awaits of the      *)
(* resolvers, a gateway write taking effect when it is acknowledged.       *)
(***************************************************************************)
EXTENDS Integers, Sequences, FiniteSets, TLC

\* ------------------------------------------------------------------ bounds
MaxChannels == 2                 \* channel ids that can ever be allocated
MaxRequests == 2                 \* requests that are served at the same time

\* ---------------------------------------------------------------- universe
Users == {"o", "a", "u"}
Null == "null"                            \* context without a signed-in user
Actors == Users \cup {Null}
Communities == {"k1", "k2"}
ChannelIds == 1 .. MaxChannels
ProcIds == 1 .. MaxRequests
Slugs == {"general", "x", "feed"}
ThreadIds == {"t1", "t2"}
Actions == {"block", "approve"}
\* contact lists of an invitation; a user's email address is the user's name
ContactLists == {<<"u">>, <<"o", "u">>}

VARIABLES
  channels,          \* channel id -> channel record (exists = FALSE: no row)
  usersChannels,     \* user -> channel id -> channel permissions
  usersCommunities,  \* user -> community -> community permissions
  threads,           \* thread id -> [channelId, deletedAt]
  cmd,               \* the request whose result is being returned, or Idle
  ret,               \* the value that resolver resolved to
  calls,             \* the gateway writes and queue jobs that resolver issued
  procs              \* request slot -> the request served in it, step by step

vars == <<channels, usersChannels, usersCommunities, threads, cmd, ret, calls, procs>>

\* ------------------------------------------------------------ stored rows
NoChannel ==
  [exists |-> FALSE, communityId |-> "k1", slug |-> "general",
   isPrivate |-> FALSE, isDefault |-> FALSE, deletedAt |-> FALSE]

DefaultChannelPermissions ==
  [isOwner |-> FALSE, isMember |-> FALSE, isPending |-> FALSE,
   isBlocked |-> FALSE, receiveNotifications |-> FALSE]

DefaultCommunityPermissions == [isOwner |-> FALSE, isMember |-> FALSE]

\* the records a command works on
Db ==
  [channels |-> channels, usersChannels |-> usersChannels,
   usersCommunities |-> usersCommunities, threads |-> threads]

\* a non-deleted channel row
Live(db, c) == db.channels[c].exists /\ ~db.channels[c].deletedAt

\* ------------------------------------------------------- values and results
UserError(message) == [isError |-> TRUE, message |-> message]
Value(v) == [isError |-> FALSE, message |-> v]

\* one gateway write or queue job
Call(fn, channelId, communityId, userId) ==
  [fn |-> fn, channelId |-> channelId, communityId |-> communityId, userId |-> userId]

Outcome(db, r, cs) == [db |-> db, ret |-> r, calls |-> cs]

\* JavaScript values where the code indexes or reads a property of a value
\* whose shape it did not check
Arr(items) == [kind |-> "array", items |-> items]
Obj(val) == [kind |-> "object", val |-> val]
Promise(val) == [kind |-> "promise", val |-> val]
Undefined == [kind |-> "undefined"]
\* v[0]
Index0(v) ==
  IF v.kind = "array" /\ Len(v.items) > 0 THEN Obj(v.items[1]) ELSE Undefined
\* truthiness of v.isOwner
PropIsOwner(v) == IF v.kind = "object" THEN v.val.isOwner ELSE FALSE

\* ---------------------------------------------------------- gateway: reads
getChannels(db, c) ==
  IF db.channels[c].exists THEN <<db.channels[c] @@ [id |-> c]>> ELSE <<>>

getCommunities(k) == IF k \in Communities THEN <<[id |-> k, slug |-> k]>> ELSE <<>>

getChannelBySlug(db, slug, communitySlug) ==
  {c \in ChannelIds : Live(db, c) /\ db.channels[c].slug = slug
                      /\ db.channels[c].communityId = communitySlug}

getUserPermissionsInChannel(db, c, u) ==
  IF Live(db, c) THEN db.usersChannels[u][c] ELSE DefaultChannelPermissions

getUserPermissionsInCommunity(db, k, u) ==
  IF k \in Communities THEN db.usersCommunities[u][k] ELSE DefaultCommunityPermissions

userIsMemberOfAnyChannelInCommunity(db, k, u) ==
  \E c \in ChannelIds :
    Live(db, c) /\ db.channels[c].communityId = k /\ db.usersChannels[u][c].isMember

channelSlugIsBlacklisted(slug) == slug \in {"feed"}

getThreadsByChannelToDelete(db, c) ==
  {t \in ThreadIds : db.threads[t].channelId = c /\ ~db.threads[t].deletedAt}

\* --------------------------------------------------------- gateway: writes
SetPerm(db, c, u, p) ==
  [db EXCEPT !.usersChannels[u][c] = p]

createMemberInChannel(db, c, u) ==
  SetPerm(db, c, u, [db.usersChannels[u][c] EXCEPT
    !.isMember = TRUE, !.isPending = FALSE, !.isBlocked = FALSE,
    !.receiveNotifications = TRUE])

removeMemberInChannel(db, c, u) ==
  SetPerm(db, c, u, [db.usersChannels[u][c] EXCEPT
    !.isMember = FALSE, !.isPending = FALSE, !.isBlocked = FALSE,
    !.receiveNotifications = FALSE])

removeMembersInChannel(db, c) ==
  [db EXCEPT !.usersChannels =
    [u \in Users |-> [db.usersChannels[u] EXCEPT ![c] = DefaultChannelPermissions]]]

createOwnerInChannel(db, c, u) ==
  SetPerm(db, c, u, [isOwner |-> TRUE, isMember |-> TRUE, isPending |-> FALSE,
                     isBlocked |-> FALSE, receiveNotifications |-> TRUE])

createOrUpdatePendingUserInChannel(db, c, u) ==
  SetPerm(db, c, u, [db.usersChannels[u][c] EXCEPT
    !.isMember = FALSE, !.isPending = TRUE, !.isBlocked = FALSE])

\* variant: the blocked flag is set and the other flags are left as they are
blockUserInChannel_FlagOnly(db, c, u) ==
  SetPerm(db, c, u, [db.usersChannels[u][c] EXCEPT !.isBlocked = TRUE])

blockUserInChannel(db, c, u) ==
  SetPerm(db, c, u, [db.usersChannels[u][c] EXCEPT
    !.isMember = FALSE, !.isPending = FALSE, !.isBlocked = TRUE,
    !.receiveNotifications = FALSE])

approvePendingUserInChannel(db, c, u) ==
  SetPerm(db, c, u, [db.usersChannels[u][c] EXCEPT
    !.isMember = TRUE, !.isPending = FALSE, !.isBlocked = FALSE,
    !.receiveNotifications = TRUE])

approvePendingUsersInChannel(db, c) ==
  [db EXCEPT !.usersChannels =
    [u \in Users |->
      IF db.usersChannels[u][c].isPending
      THEN [db.usersChannels[u] EXCEPT ![c] =
             [@ EXCEPT !.isMember = TRUE, !.isPending = FALSE,
                       !.receiveNotifications = TRUE]]
      ELSE db.usersChannels[u]]]

unblockMemberInChannel(db, c, u) ==
  SetPerm(db, c, u, [db.usersChannels[u][c] EXCEPT
    !.isMember = FALSE, !.isPending = FALSE, !.isBlocked = FALSE])

toggleUserChannelNotifications(db, u, c, value) ==
  SetPerm(db, c, u, [db.usersChannels[u][c] EXCEPT !.receiveNotifications = value])

\* the default channels of a community
DefaultChannels(db, k) ==
  {c \in ChannelIds :
     Live(db, c) /\ db.channels[c].communityId = k /\ db.channels[c].isDefault}

createMemberInDefaultChannels(db, k, u) ==
  [db EXCEPT !.usersChannels[u] =
    [c \in ChannelIds |->
      IF c \in DefaultChannels(db, k)
      THEN [db.usersChannels[u][c] EXCEPT
             !.isMember = TRUE, !.isPending = FALSE, !.isBlocked = FALSE,
             !.receiveNotifications = TRUE]
      ELSE db.usersChannels[u][c]]]

createMemberInCommunity(db, k, u) ==
  [db EXCEPT !.usersCommunities[u][k].isMember = TRUE]

removeMemberInCommunity(db, k, u) ==
  [db EXCEPT !.usersCommunities[u][k].isMember = FALSE]

\* the id the store gives the next channel row
NextChannelId(db) ==
  IF \E c \in ChannelIds : ~db.channels[c].exists
  THEN CHOOSE c \in ChannelIds :
         ~db.channels[c].exists /\ \A d \in ChannelIds : d < c => db.channels[d].exists
  ELSE 0

createChannelRow(db, input, c) ==
  [db EXCEPT !.channels[c] =
    [exists |-> TRUE, communityId |-> input.communityId, slug |-> input.slug,
     isPrivate |-> input.isPrivate, isDefault |-> FALSE, deletedAt |-> FALSE]]

editChannelRow(db, input) ==
  [db EXCEPT !.channels[input.channelId].isPrivate = input.isPrivate]

deleteChannelRow(db, c) == [db EXCEPT !.channels[c].deletedAt = TRUE]

deleteThreads(db, ts) ==
  [db EXCEPT !.threads =
    [t \in ThreadIds |-> IF t \in ts THEN [db.threads[t] EXCEPT !.deletedAt = TRUE]
                         ELSE db.threads[t]]]

\* a set of thread ids as the array the gateway returns
RECURSIVE SetToSeq(_)
SetToSeq(S) ==
  IF S = {} THEN <<>>
  ELSE LET t == CHOOSE x \in S : TRUE IN <<t>> \o SetToSeq(S \ {t})

\* ------------------------------------------------------------ createChannel
CreateChannelCmd(db, user, input) ==
  IF user = Null
  THEN Outcome(db, UserError("You must be signed in to create a new community."), <<>>)
  ELSE IF channelSlugIsBlacklisted(input.slug)
  THEN Outcome(db, UserError("This channel name is reserved."), <<>>)
  ELSE
    LET communities == getCommunities(input.communityId)
        currentUserCommunityPermissions ==
          getUserPermissionsInCommunity(db, input.communityId, user)
    IN
    IF Len(communities) = 0
    THEN Outcome(db,
           UserError("You don't have permission to create a channel in this community."), <<>>)
    ELSE IF ~currentUserCommunityPermissions.isOwner
    THEN Outcome(db,
           UserError("You don't have permission to create a channel in this community."), <<>>)
    ELSE IF getChannelBySlug(db, input.slug, communities[1].slug) # {}
    THEN Outcome(db, UserError("A channel with this slug already exists."), <<>>)
    ELSE
      LET id == NextChannelId(db)
          db1 == createChannelRow(db, input, id)
          db2 == createOwnerInChannel(db1, id, user)
      IN Outcome(db2, Value("channel"),
           <<Call("createChannel", id, input.communityId, user),
             Call("createOwnerInChannel", id, "-", user)>>)

\* ------------------------------------------------------------ deleteChannel
DeleteAllThreads_FirstOnly(db, channelId, allThreadsInChannel) ==
  LET first == SetToSeq(allThreadsInChannel)[1] IN
  Outcome(deleteThreads(db, {first}), Value("promises"),
    <<Call("deleteThread", channelId, "-", first)>>)

\* allThreadsInChannel.map(thread => deleteThread(thread.id))
DeleteAllThreads(db, channelId, allThreadsInChannel) ==
  Outcome(deleteThreads(db, allThreadsInChannel), Value("promises"),
    [i \in 1 .. Cardinality(allThreadsInChannel) |->
       Call("deleteThread", channelId, "-", SetToSeq(allThreadsInChannel)[i])])

\* variant: the members of the channel lose their community membership too
DeleteChannelWrites_LeavingCommunity(db, channelId) ==
  LET k == db.channels[channelId].communityId
      db1 == removeMembersInChannel(deleteChannelRow(db, channelId), channelId)
  IN
  [db |-> [db1 EXCEPT !.usersCommunities =
             [u \in Users |->
                IF db.usersChannels[u][channelId].isMember
                THEN [db.usersCommunities[u] EXCEPT ![k].isMember = FALSE]
                ELSE db.usersCommunities[u]]],
   calls |-> <<Call("deleteChannel", channelId, "-", "-"),
               Call("removeMembersInChannel", channelId, "-", "-"),
               Call("removeMemberInCommunity", 0, k, "-")>>]

\* the channel is marked deleted and all relationships to it are removed
DeleteChannelWrites(db, channelId) ==
  [db |-> removeMembersInChannel(deleteChannelRow(db, channelId), channelId),
   calls |-> <<Call("deleteChannel", channelId, "-", "-"),
               Call("removeMembersInChannel", channelId, "-", "-")>>]

DeleteChannelCmd(db, user, channelId) ==
  IF user = Null
  THEN Outcome(db, UserError("You must be signed in to make changes to this channel."), <<>>)
  ELSE
    LET currentUserChannelPermissions == getUserPermissionsInChannel(db, channelId, user)
        chans == getChannels(db, channelId)
    IN
    IF Len(chans) = 0 \/ chans[1].deletedAt
    THEN Outcome(db, UserError("Channel doesn't exist"), <<>>)
    ELSE
      LET channelToEvaluate == chans[1]
          currentUserCommunityPermissions ==
            getUserPermissionsInCommunity(db, channelToEvaluate.communityId, user)
      IN
      IF ~currentUserChannelPermissions.isOwner /\ ~currentUserCommunityPermissions.isOwner
      THEN Outcome(db,
             UserError("You don't have permission to make changes to this channel"), <<>>)
      ELSE
        LET allThreadsInChannel == getThreadsByChannelToDelete(db, channelId)
            removed == DeleteChannelWrites(db, channelId)
            db1 == removed.db
            written == removed.calls
        IN
        IF allThreadsInChannel = {}
        THEN Outcome(db1, Value("undefined"), written)
        ELSE
          LET deleted == DeleteAllThreads(db1, channelId, allThreadsInChannel) IN
          Outcome(deleted.db, deleted.ret, written \o deleted.calls)

\* -------------------------------------------------------------- editChannel
EditChannelCmd(db, user, input) ==
  IF user = Null
  THEN Outcome(db, UserError("You must be signed in to make changes to this channel."), <<>>)
  ELSE
    LET \* Promise.all([getCurrentUserChannelPermissions, getChannelRecords])
        results == <<Obj(getUserPermissionsInChannel(db, input.channelId, user)),
                     Arr(getChannels(db, input.channelId))>>
        \* const [channels, currentUserChannelPermissions] = ...
        chans == results[1]
        currentUserChannelPermissions == results[2]
        channelToEvaluate == Index0(chans)
    IN
    IF channelToEvaluate.kind = "undefined" \/ channelToEvaluate.val.deletedAt
    THEN Outcome(db, UserError("This channel doesn't exist"), <<>>)
    ELSE
      LET currentUserCommunityPermissions ==
            getUserPermissionsInCommunity(db, channelToEvaluate.val.communityId, user)
      IN
      IF currentUserCommunityPermissions.isOwner \/ PropIsOwner(currentUserChannelPermissions)
      THEN
        IF channelToEvaluate.val.isPrivate /\ ~input.isPrivate
        THEN Outcome(editChannelRow(approvePendingUsersInChannel(db, input.channelId), input),
               Value("channel"),
               <<Call("approvePendingUsersInChannel", input.channelId, "-", "-"),
                 Call("editChannel", input.channelId, "-", "-")>>)
        ELSE Outcome(editChannelRow(db, input), Value("channel"),
               <<Call("editChannel", input.channelId, "-", "-")>>)
      ELSE Outcome(db,
             UserError("You don't have permission to make changes to this channel."), <<>>)

\* ------------------------------------------------ toggleChannelSubscription
\* variant: the blocked user is not turned away
IsBlockedGuard_Off(currentUserChannelPermissions) == FALSE

\* the guards that reject the command for a blocked user and for the owner
IsBlockedGuard(currentUserChannelPermissions) == currentUserChannelPermissions.isBlocked

IsOwnerGuard(currentUserChannelPermissions) == currentUserChannelPermissions.isOwner

\* variant: membership of a channel of any community keeps the community
LeaveCascade_AnyCommunity(db, channelToEvaluate, user) ==
  IF \E c \in ChannelIds : Live(db, c) /\ db.usersChannels[user][c].isMember
  THEN [db |-> db, calls |-> <<>>]
  ELSE [db |-> removeMemberInCommunity(db, channelToEvaluate.communityId, user),
        calls |-> <<Call("removeMemberInCommunity", 0, channelToEvaluate.communityId, user)>>]

\* after the relationship was removed: leave the community with the last channel
LeaveCascade(db, channelToEvaluate, user) ==
  LET isMemberOfAnotherChannel ==
        userIsMemberOfAnyChannelInCommunity(db, channelToEvaluate.communityId, user)
  IN
  IF isMemberOfAnotherChannel
  THEN [db |-> db, calls |-> <<>>]
  ELSE [db |-> removeMemberInCommunity(db, channelToEvaluate.communityId, user),
        calls |-> <<Call("removeMemberInCommunity", 0, channelToEvaluate.communityId, user)>>]

\* variant: the new community member is not put into the default channels
JoinCascade_NoDefaults(db, joinedChannel, user) ==
  IF getUserPermissionsInCommunity(db, joinedChannel.communityId, user).isMember
  THEN [db |-> db, calls |-> <<>>]
  ELSE [db |-> createMemberInCommunity(db, joinedChannel.communityId, user),
        calls |-> <<Call("createMemberInCommunity", 0, joinedChannel.communityId, user)>>]

\* after the user was made a member of a public channel: join the community
\* and its default channels when the user is new to the community
JoinCascade(db, joinedChannel, user) ==
  LET currentUserCommunityPermissions ==
        getUserPermissionsInCommunity(db, joinedChannel.communityId, user)
  IN
  IF currentUserCommunityPermissions.isMember
  THEN [db |-> db, calls |-> <<>>]
  ELSE [db |-> createMemberInDefaultChannels(
                 createMemberInCommunity(db, joinedChannel.communityId, user),
                 joinedChannel.communityId, user),
        calls |-> <<Call("createMemberInCommunity", 0, joinedChannel.communityId, user),
                    Call("createMemberInDefaultChannels", 0, joinedChannel.communityId, user)>>]

\* variant: the request for access is stored but nobody is notified
RequestToJoin_Silent(db, channelId, user) ==
  Outcome(createOrUpdatePendingUserInChannel(db, channelId, user), Value("channel"),
    <<Call("createOrUpdatePendingUserInChannel", channelId, "-", user)>>)

\* a user without a relationship asks for access to a private channel: the
\* pending relationship and the job for the owners are started together
RequestToJoin(db, channelId, user) ==
  Outcome(createOrUpdatePendingUserInChannel(db, channelId, user), Value("channel"),
    <<Call("createOrUpdatePendingUserInChannel", channelId, "-", user),
      Call("addQueue: private channel request sent", channelId, "-", user)>>)

\* variant: the notification flag is written without looking at the permissions
NotificationsToggled_Unchecked(db, user, channelId, permissions) ==
  Outcome(toggleUserChannelNotifications(db, user, channelId, ~permissions.receiveNotifications),
    Value("permissions"), <<Call("toggleUserChannelNotifications", channelId, "-", user)>>)

ToggleChannelSubscriptionCmd(db, user, channelId) ==
  IF user = Null
  THEN Outcome(db, UserError("You must be signed in to follow this channel."), <<>>)
  ELSE
    LET chans == getChannels(db, channelId)
        currentUserChannelPermissions == getUserPermissionsInChannel(db, channelId, user)
    IN
    IF Len(chans) = 0 \/ chans[1].deletedAt
    THEN Outcome(db, UserError("This channel doesn't exist"), <<>>)
    ELSE IF IsBlockedGuard(currentUserChannelPermissions)
    THEN Outcome(db, UserError("You don't have permission to do that."), <<>>)
    ELSE IF IsOwnerGuard(currentUserChannelPermissions)
    THEN Outcome(db,
           UserError("Owners of a community can't join or leave their own channel."), <<>>)
    ELSE
      LET channelToEvaluate == chans[1] IN
      IF currentUserChannelPermissions.isMember
      THEN
        LET db1 == removeMemberInChannel(db, channelId, user)
            rest == LeaveCascade(db1, channelToEvaluate, user)
        IN Outcome(rest.db, Value("channel"),
             <<Call("removeMemberInChannel", channelId, "-", user)>> \o rest.calls)
      ELSE IF currentUserChannelPermissions.isPending
      THEN Outcome(removeMemberInChannel(db, channelId, user), Value("removed"),
             <<Call("removeMemberInChannel", channelId, "-", user)>>)
      ELSE IF channelToEvaluate.isPrivate
      THEN RequestToJoin(db, channelId, user)
      ELSE
        LET db1 == createMemberInChannel(db, channelId, user)
            rest == JoinCascade(db1, channelToEvaluate, user)
        IN Outcome(rest.db, Value("channel"),
             <<Call("createMemberInChannel", channelId, "-", user)>> \o rest.calls)

\* --------------------------------------------------------- togglePendingUser
\* variant: the pending check is skipped
NotPendingGuard_Off(evaluatedUserPermissions) == FALSE

\* the guard that rejects the command when the evaluated user is not pending
NotPendingGuard(evaluatedUserPermissions) == ~evaluatedUserPermissions.isPending

\* the guard that rejects the command for an actor without the roles
NotOwnerGuard(channelPermissions, currentUserCommunityPermissions) ==
  ~channelPermissions.isOwner \/ ~currentUserCommunityPermissions.isOwner

ApprovePendingUser(db, user, input, channelToEvaluate, currentUserCommunityPermissions) ==
  LET approved == approvePendingUserInChannel(db, input.channelId, input.userId)
      approveUser == Call("approvePendingUserInChannel", input.channelId, "-", input.userId)
      job == Call("addQueue: private channel request approved",
                  input.channelId, channelToEvaluate.communityId, input.userId)
  IN
  IF currentUserCommunityPermissions.isMember
  THEN Outcome(approved, Value("channel"), <<approveUser, job>>)
  ELSE Outcome(
         createMemberInDefaultChannels(
           createMemberInCommunity(approved, channelToEvaluate.communityId, input.userId),
           channelToEvaluate.communityId, input.userId),
         Value("channel"),
         <<approveUser,
           Call("createMemberInCommunity", 0, channelToEvaluate.communityId, input.userId),
           Call("createMemberInDefaultChannels", 0, channelToEvaluate.communityId,
                input.userId),
           job>>)

TogglePendingUserCmd(db, user, input) ==
  IF user = Null
  THEN Outcome(db, UserError("You must be signed in to make changes to this channel."), <<>>)
  ELSE
    LET channelPermissions == getUserPermissionsInChannel(db, input.channelId, user)
        evaluatedUserPermissions ==
          getUserPermissionsInChannel(db, input.channelId, input.userId)
        chans == getChannels(db, input.channelId)
    IN
    IF Len(chans) = 0 \/ chans[1].deletedAt
    THEN Outcome(db, UserError("This channel doesn't exist"), <<>>)
    ELSE
      LET channelToEvaluate == chans[1]
          currentUserCommunityPermissions ==
            getUserPermissionsInCommunity(db, channelToEvaluate.communityId, user)
      IN
      IF NotPendingGuard(evaluatedUserPermissions)
      THEN Outcome(db,
             UserError("This user is not currently pending access to this channel."), <<>>)
      ELSE IF NotOwnerGuard(channelPermissions, currentUserCommunityPermissions)
      THEN Outcome(db,
             UserError("You don't have permission to make changes to this channel."), <<>>)
      ELSE IF input.action = "block"
      THEN Outcome(blockUserInChannel(db, input.channelId, input.userId), Value("channel"),
             <<Call("blockUserInChannel", input.channelId, "-", input.userId)>>)
      ELSE ApprovePendingUser(db, user, input, channelToEvaluate,
                              currentUserCommunityPermissions)

\* --------------------------------------------------------------- unblockUser
UnblockUserCmd(db, user, input) ==
  IF user = Null
  THEN Outcome(db, UserError("You must be signed in to make changes to this channel."), <<>>)
  ELSE
    LET currentUserChannelPermissions == getUserPermissionsInChannel(db, input.channelId, user)
        evaluatedUserChannelPermissions ==
          getUserPermissionsInChannel(db, input.channelId, input.userId)
        chans == getChannels(db, input.channelId)
    IN
    IF Len(chans) = 0 \/ chans[1].deletedAt
    THEN Outcome(db, UserError("This channel doesn't exist"), <<>>)
    ELSE
      LET channelToEvaluate == chans[1]
          \* the promise itself: the call is not awaited
          currentUserCommunityPermissions ==
            Promise(getUserPermissionsInCommunity(db, channelToEvaluate.communityId, user))
      IN
      IF ~evaluatedUserChannelPermissions.isBlocked
      THEN Outcome(db, UserError("This user is not currently blocked in this channel."), <<>>)
      ELSE IF currentUserChannelPermissions.isOwner
              \/ PropIsOwner(currentUserCommunityPermissions)
      THEN Outcome(unblockMemberInChannel(db, input.channelId, input.userId), Value("channel"),
             <<Call("unblockMemberInChannel", input.channelId, "-", input.userId)>>)
      ELSE Outcome(db,
             UserError("You don't have permission to make changes to this channel."), <<>>)

\* ------------------------------------------------ toggleChannelNotifications
\* the first callback of the promise chain: a UserError it returns is an
\* ordinary fulfilment value of the chain
NotificationsToggled(db, user, channelId, permissions) ==
  IF permissions.isBlocked \/ ~permissions.isMember
  THEN Outcome(db, UserError("You don't have permission to do that."), <<>>)
  ELSE
    LET value == ~permissions.receiveNotifications IN
    Outcome(toggleUserChannelNotifications(db, user, channelId, value), Value("permissions"),
      <<Call("toggleUserChannelNotifications", channelId, "-", user)>>)

ToggleChannelNotificationsCmd(db, user, channelId) ==
  IF user = Null
  THEN Outcome(db,
         UserError("You must be signed in to get notifications for this channel."), <<>>)
  ELSE
    LET permissions == getUserPermissionsInChannel(db, channelId, user)
        toggled == NotificationsToggled(db, user, channelId, permissions)
        \* the second callback takes no argument: what the first one returned
        \* is dropped and the chain resolves to channelRecords[0]
        channelRecords == Arr(getChannels(toggled.db, channelId))
    IN
    Outcome(toggled.db,
      IF Index0(channelRecords) = Undefined THEN Value("undefined") ELSE Value("channel"),
      toggled.calls)

\* --------------------------------------------------- sendChannelEmailInvites
SendChannelEmailInvitesCmd(db, user, input) ==
  IF user = Null
  THEN Outcome(db, UserError("You must be signed in to invite people to this channel."), <<>>)
  ELSE
    LET permissions == getUserPermissionsInChannel(db, input.id, user) IN
    IF ~permissions.isOwner
    THEN Outcome(db,
           UserError("You don't have permission to invite people to this channel."), <<>>)
    ELSE
      LET invited == SelectSeq(input.contacts, LAMBDA email : email # user) IN
      Outcome(db, Value("jobs"),
        [i \in 1 .. Len(invited) |->
           Call("addQueue: private channel invite notification", input.id, "-", invited[i])])

\* ------------------------------------------------------------ state machine
\* a request slot in which no request has been started
NoRequest ==
  [pc |-> "idle", op |-> "none", user |-> Null, channelId |-> 0, userId |-> Null,
   action |-> "-", input |-> [communityId |-> "-", slug |-> "-", isPrivate |-> FALSE],
   channelToEvaluate |-> NoChannel @@ [id |-> 0],
   channelPermissions |-> DefaultChannelPermissions,
   evaluatedUserPermissions |-> DefaultChannelPermissions,
   allThreadsInChannel |-> {},
   inflight |-> {}, jobs |-> <<>>, ret |-> Value("none"), path |-> "-"]

OwnerPermissions ==
  [isOwner |-> TRUE, isMember |-> TRUE, isPending |-> FALSE, isBlocked |-> FALSE,
   receiveNotifications |-> TRUE]

MemberPermissions == [OwnerPermissions EXCEPT !.isOwner = FALSE]

\* no request is being served
Idle == [op |-> "none"]

\* Community k1 was created with its default channel "general" (channel 1,
\* one thread) by its owner "o", who also owns community k2.  "a" is either a
\* stranger or a second owner of k1 and member of its default channel.
Init ==
  /\ channels =
       [c \in ChannelIds |->
          IF c = 1 THEN [NoChannel EXCEPT !.exists = TRUE, !.isDefault = TRUE]
          ELSE NoChannel]
  /\ \E coOwner \in BOOLEAN :
       /\ usersChannels =
            [u \in Users |-> [c \in ChannelIds |->
               IF u = "o" /\ c = 1 THEN OwnerPermissions
               ELSE IF u = "a" /\ c = 1 /\ coOwner THEN MemberPermissions
               ELSE DefaultChannelPermissions]]
       /\ usersCommunities =
            [u \in Users |-> [k \in Communities |->
               IF u = "o" \/ (u = "a" /\ k = "k1" /\ coOwner)
               THEN [isOwner |-> TRUE, isMember |-> TRUE]
               ELSE DefaultCommunityPermissions]]
  /\ threads = [t \in ThreadIds |-> [channelId |-> 1, deletedAt |-> FALSE]]
  /\ cmd = Idle
  /\ ret = Value("none")
  /\ calls = <<>>
  /\ procs = [p \in ProcIds |-> NoRequest]

\* a resolver runs to completion on the stored records
Run(c, out) ==
  /\ cmd = Idle
  /\ cmd' = c
  /\ ret' = out.ret
  /\ calls' = out.calls
  /\ channels' = out.db.channels
  /\ usersChannels' = out.db.usersChannels
  /\ usersCommunities' = out.db.usersCommunities
  /\ threads' = out.db.threads
  /\ UNCHANGED procs

CreateChannelInput(communityId, slug, isPrivate) ==
  [communityId |-> communityId, slug |-> slug, isPrivate |-> isPrivate]

EditChannelInput(channelId, isPrivate) == [channelId |-> channelId, isPrivate |-> isPrivate]

TogglePendingInput(channelId, userId, action) ==
  [channelId |-> channelId, userId |-> userId, action |-> action]

UnblockInput(channelId, userId) == [channelId |-> channelId, userId |-> userId]

EmailInvitesInput(id, contacts) == [id |-> id, contacts |-> contacts]

CreateChannelStep(user, input) ==
  /\ (CreateChannelCmd(Db, user, input).ret.isError \/ NextChannelId(Db) # 0)
  /\ Run([op |-> "createChannel", user |-> user, input |-> input],
         CreateChannelCmd(Db, user, input))

DeleteChannelStep(user, channelId) ==
  Run([op |-> "deleteChannel", user |-> user, channelId |-> channelId],
      DeleteChannelCmd(Db, user, channelId))

EditChannelStep(user, input) ==
  Run([op |-> "editChannel", user |-> user, input |-> input],
      EditChannelCmd(Db, user, input))

ToggleChannelSubscriptionStep(user, channelId) ==
  Run([op |-> "toggleChannelSubscription", user |-> user, channelId |-> channelId],
      ToggleChannelSubscriptionCmd(Db, user, channelId))

TogglePendingUserStep(user, input) ==
  Run([op |-> "togglePendingUser", user |-> user, input |-> input],
      TogglePendingUserCmd(Db, user, input))

UnblockUserStep(user, input) ==
  Run([op |-> "unblockUser", user |-> user, input |-> input],
      UnblockUserCmd(Db, user, input))

ToggleChannelNotificationsStep(user, channelId) ==
  Run([op |-> "toggleChannelNotifications", user |-> user, channelId |-> channelId],
      ToggleChannelNotificationsCmd(Db, user, channelId))

SendChannelEmailInvitesStep(user, input) ==
  Run([op |-> "sendChannelEmailInvites", user |-> user, input |-> input],
      SendChannelEmailInvitesCmd(Db, user, input))

CreateChannel ==
  \E user \in Actors, communityId \in Communities \cup {"k0"}, slug \in Slugs,
     isPrivate \in BOOLEAN :
    CreateChannelStep(user, CreateChannelInput(communityId, slug, isPrivate))

DeleteChannel ==
  \E user \in Actors, channelId \in ChannelIds : DeleteChannelStep(user, channelId)

EditChannel ==
  \E user \in Actors, channelId \in ChannelIds, isPrivate \in BOOLEAN :
    EditChannelStep(user, EditChannelInput(channelId, isPrivate))

ToggleChannelSubscription ==
  \E user \in Actors, channelId \in ChannelIds :
    ToggleChannelSubscriptionStep(user, channelId)

TogglePendingUser ==
  \E user \in Actors, channelId \in ChannelIds, userId \in Users, action \in Actions :
    TogglePendingUserStep(user, TogglePendingInput(channelId, userId, action))

UnblockUser ==
  \E user \in Actors, channelId \in ChannelIds, userId \in Users :
    UnblockUserStep(user, UnblockInput(channelId, userId))

\* the resolver's result is returned to the caller; the next request can start
Respond ==
  /\ cmd # Idle
  /\ cmd' = Idle
  /\ ret' = Value("none")
  /\ calls' = <<>>
  /\ UNCHANGED <<channels, usersChannels, usersCommunities, threads, procs>>

Next ==
  \/ CreateChannel
  \/ DeleteChannel
  \/ EditChannel
  \/ ToggleChannelSubscription
  \/ TogglePendingUser
  \/ UnblockUser
  \/ Respond

Spec == Init /\ [][Next]_vars

\* ----------------------------------------------- all commands of the module
\* The eight resolvers together, called by the community owner, by an
\* outsider and without a signed-in user.
Callers == {"o", "u", Null}

AnyCommand(user) ==
  \/ \E communityId \in Communities \cup {"k0"}, slug \in Slugs, isPrivate \in BOOLEAN :
       CreateChannelStep(user, CreateChannelInput(communityId, slug, isPrivate))
  \/ \E channelId \in ChannelIds : DeleteChannelStep(user, channelId)
  \/ \E channelId \in ChannelIds, isPrivate \in BOOLEAN :
       EditChannelStep(user, EditChannelInput(channelId, isPrivate))
  \/ \E channelId \in ChannelIds : ToggleChannelSubscriptionStep(user, channelId)
  \/ \E channelId \in ChannelIds, userId \in Users, action \in Actions :
       TogglePendingUserStep(user, TogglePendingInput(channelId, userId, action))
  \/ \E channelId \in ChannelIds, userId \in Users :
       UnblockUserStep(user, UnblockInput(channelId, userId))
  \/ \E channelId \in ChannelIds : ToggleChannelNotificationsStep(user, channelId)
  \/ \E id \in ChannelIds, contacts \in ContactLists :
       SendChannelEmailInvitesStep(user, EmailInvitesInput(id, contacts))

NextAll ==
  \/ \E user \in Callers : AnyCommand(user)
  \/ Respond

SpecAll == Init /\ [][NextAll]_vars

\* ------------------------------------------------- requests served together
\* The server takes requests while others are waiting for the gateway.  A
\* resolver runs from one await to the next without interruption; a gateway
\* read returns the records of one instant (the reads joined by Promise.all
\* are taken together); a gateway write is issued where the code calls it and
\* takes effect when the gateway acknowledges it, which is when the promise
\* the resolver waits for can resolve.
Requesters == {"o", "u"}

QueueJobs ==
  {"addQueue: private channel request sent",
   "addQueue: private channel request approved",
   "addQueue: private channel invite notification"}

IsJob(call) == call.fn \in QueueJobs

\* the gateway writes among the calls of a step, and its queue jobs
WritesOf(cs) == {cs[i] : i \in {j \in 1 .. Len(cs) : ~IsJob(cs[j])}}
JobsOf(cs) == SelectSeq(cs, IsJob)

\* the effect of an acknowledged gateway write on the stored records
ApplyWrite(db, w, input) ==
  CASE w.fn = "removeMemberInChannel" -> removeMemberInChannel(db, w.channelId, w.userId)
    [] w.fn = "createMemberInChannel" -> createMemberInChannel(db, w.channelId, w.userId)
    [] w.fn = "createOrUpdatePendingUserInChannel" ->
         createOrUpdatePendingUserInChannel(db, w.channelId, w.userId)
    [] w.fn = "blockUserInChannel" -> blockUserInChannel(db, w.channelId, w.userId)
    [] w.fn = "approvePendingUserInChannel" ->
         approvePendingUserInChannel(db, w.channelId, w.userId)
    [] w.fn = "createOwnerInChannel" -> createOwnerInChannel(db, w.channelId, w.userId)
    [] w.fn = "createMemberInCommunity" -> createMemberInCommunity(db, w.communityId, w.userId)
    [] w.fn = "removeMemberInCommunity" -> removeMemberInCommunity(db, w.communityId, w.userId)
    [] w.fn = "createMemberInDefaultChannels" ->
         createMemberInDefaultChannels(db, w.communityId, w.userId)
    [] w.fn = "createChannel" -> createChannelRow(db, input, NextChannelId(db))
    [] w.fn = "unblockMemberInChannel" -> unblockMemberInChannel(db, w.channelId, w.userId)
    [] w.fn = "deleteChannel" -> deleteChannelRow(db, w.channelId)
    [] w.fn = "removeMembersInChannel" -> removeMembersInChannel(db, w.channelId)
    [] w.fn = "deleteThread" -> deleteThreads(db, {w.userId})

\* the request returns
Resolved(r, value) == [r EXCEPT !.pc = "done", !.ret = value]

\* the request waits for the writes it issued
Awaiting(r, pc, path, cs) ==
  [r EXCEPT !.pc = pc, !.path = path, !.inflight = WritesOf(cs),
            !.jobs = r.jobs \o JobsOf(cs)]

\* toggleChannelSubscription up to its first writes
SubscriptionRequest(db, user, channelId) ==
  LET r == [NoRequest EXCEPT !.op = "toggleChannelSubscription", !.user = user,
                             !.channelId = channelId]
      chans == getChannels(db, channelId)
      currentUserChannelPermissions == getUserPermissionsInChannel(db, channelId, user)
  IN
  IF Len(chans) = 0 \/ chans[1].deletedAt
  THEN Resolved(r, UserError("This channel doesn't exist"))
  ELSE IF IsBlockedGuard(currentUserChannelPermissions)
  THEN Resolved(r, UserError("You don't have permission to do that."))
  ELSE IF IsOwnerGuard(currentUserChannelPermissions)
  THEN Resolved(r, UserError("Owners of a community can't join or leave their own channel."))
  ELSE
    LET s == [r EXCEPT !.channelToEvaluate = chans[1]] IN
    IF currentUserChannelPermissions.isMember
    THEN Awaiting(s, "leaving", "leave",
           <<Call("removeMemberInChannel", channelId, "-", user)>>)
    ELSE IF currentUserChannelPermissions.isPending
    THEN Awaiting(s, "returning", "cancel",
           <<Call("removeMemberInChannel", channelId, "-", user)>>)
    ELSE IF chans[1].isPrivate
    THEN Awaiting(s, "returning", "request", RequestToJoin(db, channelId, user).calls)
    ELSE Awaiting(s, "joining", "join",
           <<Call("createMemberInChannel", channelId, "-", user)>>)

\* the leave after its removal was acknowledged
LeaveContinued(db, r) ==
  LET rest == LeaveCascade(db, r.channelToEvaluate, r.user) IN
  IF rest.calls = <<>> THEN Resolved(r, Value("channel"))
  ELSE Awaiting(r, "returning", r.path, rest.calls)

\* the join of a public channel after the membership was acknowledged
JoinContinued(db, r) ==
  LET rest == JoinCascade(db, r.channelToEvaluate, r.user) IN
  IF rest.calls = <<>> THEN Resolved(r, Value("channel"))
  ELSE Awaiting(r, "granting", r.path, rest.calls)

\* togglePendingUser up to the second await
PendingRequest(db, user, input) ==
  LET r == [NoRequest EXCEPT !.op = "togglePendingUser", !.user = user,
                             !.channelId = input.channelId, !.userId = input.userId,
                             !.action = input.action]
      channelPermissions == getUserPermissionsInChannel(db, input.channelId, user)
      evaluatedUserPermissions ==
        getUserPermissionsInChannel(db, input.channelId, input.userId)
      chans == getChannels(db, input.channelId)
  IN
  IF Len(chans) = 0 \/ chans[1].deletedAt
  THEN Resolved(r, UserError("This channel doesn't exist"))
  ELSE [r EXCEPT !.pc = "deciding", !.channelToEvaluate = chans[1],
                 !.channelPermissions = channelPermissions,
                 !.evaluatedUserPermissions = evaluatedUserPermissions]

\* togglePendingUser from the community permissions to its writes
PendingContinued(db, r) ==
  LET input == TogglePendingInput(r.channelId, r.userId, r.action)
      currentUserCommunityPermissions ==
        getUserPermissionsInCommunity(db, r.channelToEvaluate.communityId, r.user)
  IN
  IF NotPendingGuard(r.evaluatedUserPermissions)
  THEN Resolved(r, UserError("This user is not currently pending access to this channel."))
  ELSE IF NotOwnerGuard(r.channelPermissions, currentUserCommunityPermissions)
  THEN Resolved(r, UserError("You don't have permission to make changes to this channel."))
  ELSE IF input.action = "block"
  THEN Awaiting(r, "returning", "block",
         <<Call("blockUserInChannel", input.channelId, "-", input.userId)>>)
  ELSE
    \* the job is enqueued by the callback that runs after the writes
    LET cs == ApprovePendingUser(db, r.user, input, r.channelToEvaluate,
                                 currentUserCommunityPermissions).calls
    IN [r EXCEPT !.pc = "approving", !.path = "approve", !.inflight = WritesOf(cs)]

\* .then(() => { addQueue('private channel request approved', ...) })
ApproveNotified(r) ==
  Resolved([r EXCEPT !.jobs = r.jobs \o
              <<Call("addQueue: private channel request approved",
                     r.channelId, r.channelToEvaluate.communityId, r.userId)>>],
           Value("channel"))

\* createChannel up to the slug lookup
CreateRequest(db, user, input) ==
  LET r == [NoRequest EXCEPT !.op = "createChannel", !.user = user, !.input = input] IN
  IF channelSlugIsBlacklisted(input.slug)
  THEN Resolved(r, UserError("This channel name is reserved."))
  ELSE
    LET communities == getCommunities(input.communityId)
        currentUserCommunityPermissions ==
          getUserPermissionsInCommunity(db, input.communityId, user)
    IN
    IF Len(communities) = 0 \/ ~currentUserCommunityPermissions.isOwner
    THEN Resolved(r,
           UserError("You don't have permission to create a channel in this community."))
    ELSE [r EXCEPT !.pc = "lookingUp"]

\* createChannel from the slug lookup to the write of the channel row
CreateLookedUp(db, r) ==
  IF getChannelBySlug(db, r.input.slug, getCommunities(r.input.communityId)[1].slug) # {}
  THEN Resolved(r, UserError("A channel with this slug already exists."))
  ELSE Awaiting(r, "creating", "create",
         <<Call("createChannel", 0, r.input.communityId, r.user)>>)

\* createChannel after the channel row was written: the owner relationship
CreateOwnerIssued(r) ==
  Awaiting(r, "returning", r.path,
    <<Call("createOwnerInChannel", r.channelId, "-", r.user)>>)

\* unblockUser: its reads are joined by one Promise.all and nothing is awaited
\* between them and the write
UnblockRequest(db, user, input) ==
  LET r == [NoRequest EXCEPT !.op = "unblockUser", !.user = user,
                             !.channelId = input.channelId, !.userId = input.userId]
      out == UnblockUserCmd(db, user, input)
  IN
  IF out.ret.isError THEN Resolved(r, out.ret)
  ELSE Awaiting(r, "returning", "unblock", out.calls)

\* deleteChannel up to the second await
DeleteRequest(db, user, channelId) ==
  LET r == [NoRequest EXCEPT !.op = "deleteChannel", !.user = user,
                             !.channelId = channelId]
      currentUserChannelPermissions == getUserPermissionsInChannel(db, channelId, user)
      chans == getChannels(db, channelId)
  IN
  IF Len(chans) = 0 \/ chans[1].deletedAt
  THEN Resolved(r, UserError("Channel doesn't exist"))
  ELSE [r EXCEPT !.pc = "authorizing", !.channelToEvaluate = chans[1],
                 !.channelPermissions = currentUserChannelPermissions]

\* deleteChannel from the community permissions to its three gateway calls
DeleteAuthorized(db, r) ==
  LET currentUserCommunityPermissions ==
        getUserPermissionsInCommunity(db, r.channelToEvaluate.communityId, r.user)
  IN
  IF ~r.channelPermissions.isOwner /\ ~currentUserCommunityPermissions.isOwner
  THEN Resolved(r, UserError("You don't have permission to make changes to this channel"))
  ELSE Awaiting([r EXCEPT !.allThreadsInChannel =
                             getThreadsByChannelToDelete(db, r.channelId)],
         "deleting", "delete", DeleteChannelWrites(db, r.channelId).calls)

\* deleteChannel after the three calls: the threads are deleted by promises
\* the resolver returns without waiting for them
DeleteThreadsIssued(db, r) ==
  IF r.allThreadsInChannel = {} THEN Resolved(r, Value("undefined"))
  ELSE
    LET deleted == DeleteAllThreads(db, r.channelId, r.allThreadsInChannel) IN
    Resolved(Awaiting(r, r.pc, r.path, deleted.calls), deleted.ret)

\* ---- steps of the requests
RecordsUnchanged == UNCHANGED <<channels, usersChannels, usersCommunities, threads>>
HistoryUnchanged == UNCHANGED <<cmd, ret, calls>>

\* a step of request p that touches no stored record
Local(p, r) ==
  /\ procs' = [procs EXCEPT ![p] = r]
  /\ RecordsUnchanged
  /\ HistoryUnchanged

StartToggleChannelSubscription(p, user, channelId) ==
  /\ procs[p].pc = "idle"
  /\ Local(p, SubscriptionRequest(Db, user, channelId))

StartTogglePendingUser(p, user, input) ==
  /\ procs[p].pc = "idle"
  /\ Local(p, PendingRequest(Db, user, input))

StartCreateChannel(p, user, input) ==
  /\ procs[p].pc = "idle"
  /\ Local(p, CreateRequest(Db, user, input))

StartUnblockUser(p, user, input) ==
  /\ procs[p].pc = "idle"
  /\ Local(p, UnblockRequest(Db, user, input))

StartDeleteChannel(p, user, channelId) ==
  /\ procs[p].pc = "idle"
  /\ Local(p, DeleteRequest(Db, user, channelId))

\* the gateway acknowledges one of the writes request p waits for
Acknowledge(p) ==
  \E w \in procs[p].inflight :
    /\ w.fn = "createChannel" => NextChannelId(Db) # 0
    /\ LET db == ApplyWrite(Db, w, procs[p].input) IN
       /\ channels' = db.channels
       /\ usersChannels' = db.usersChannels
       /\ usersCommunities' = db.usersCommunities
       /\ threads' = db.threads
    /\ procs' = [procs EXCEPT ![p].inflight = @ \ {w},
                              ![p].channelId =
                                IF w.fn = "createChannel" THEN NextChannelId(Db) ELSE @]
    /\ HistoryUnchanged

\* request p resumes after everything it waited for was acknowledged
Resumes(p, pc) == procs[p].pc = pc /\ procs[p].inflight = {}

ContinueLeave(p) == Resumes(p, "leaving") /\ Local(p, LeaveContinued(Db, procs[p]))
ContinueJoin(p) == Resumes(p, "joining") /\ Local(p, JoinContinued(Db, procs[p]))
ContinuePending(p) == Resumes(p, "deciding") /\ Local(p, PendingContinued(Db, procs[p]))
ContinueApprove(p) == Resumes(p, "approving") /\ Local(p, ApproveNotified(procs[p]))
ContinueLookup(p) == Resumes(p, "lookingUp") /\ Local(p, CreateLookedUp(Db, procs[p]))
ContinueCreate(p) == Resumes(p, "creating") /\ Local(p, CreateOwnerIssued(procs[p]))
ContinueDelete(p) == Resumes(p, "authorizing") /\ Local(p, DeleteAuthorized(Db, procs[p]))
ContinueThreads(p) == Resumes(p, "deleting") /\ Local(p, DeleteThreadsIssued(Db, procs[p]))
Return(p) ==
  /\ procs[p].pc \in {"returning", "granting"}
  /\ procs[p].inflight = {}
  /\ Local(p, Resolved(procs[p], Value("channel")))

\* The records before the requests arrive: community k1, either before its
\* first channel is stored or with its default channel 1 and the threads of
\* that channel; possibly a second channel "x" of k1 that "o" created, public
\* or private; "u" an outsider, a member of channel 1 (and so of k1), waiting
\* for access to the private channel, or blocked in it.
InitC ==
  \E general \in BOOLEAN, second \in {"none", "public", "private"},
     uIs \in {"outsider", "member", "pending", "blocked"} :
    /\ ~general => (second = "none" /\ uIs = "outsider")
    /\ uIs \in {"pending", "blocked"} => second = "private"
    /\ channels =
         [c \in ChannelIds |->
            IF c = 1 /\ general THEN [NoChannel EXCEPT !.exists = TRUE, !.isDefault = TRUE]
            ELSE IF c = 2 /\ second # "none"
            THEN [NoChannel EXCEPT !.exists = TRUE, !.slug = "x",
                                   !.isPrivate = (second = "private")]
            ELSE NoChannel]
    /\ usersChannels =
         [u \in Users |-> [c \in ChannelIds |->
            IF u = "o" /\ ((c = 1 /\ general) \/ (c = 2 /\ second # "none"))
            THEN OwnerPermissions
            ELSE IF u = "u" /\ c = 1 /\ uIs = "member" THEN MemberPermissions
            ELSE IF u = "u" /\ c = 2 /\ uIs = "pending"
            THEN [DefaultChannelPermissions EXCEPT !.isPending = TRUE]
            ELSE IF u = "u" /\ c = 2 /\ uIs = "blocked"
            THEN [DefaultChannelPermissions EXCEPT !.isBlocked = TRUE]
            ELSE DefaultChannelPermissions]]
    /\ usersCommunities =
         [u \in Users |-> [k \in Communities |->
            IF u = "o" THEN [isOwner |-> TRUE, isMember |-> TRUE]
            ELSE IF u = "u" /\ k = "k1" /\ uIs = "member"
            THEN [isOwner |-> FALSE, isMember |-> TRUE]
            ELSE DefaultCommunityPermissions]]
    /\ threads =
         [t \in ThreadIds |-> [channelId |-> IF general THEN 1 ELSE 0, deletedAt |-> FALSE]]
    /\ cmd = Idle
    /\ ret = Value("none")
    /\ calls = <<>>
    /\ procs = [p \in ProcIds |-> NoRequest]

NextC ==
  \E p \in ProcIds :
    \/ \E user \in Requesters, channelId \in ChannelIds :
         StartToggleChannelSubscription(p, user, channelId)
    \/ \E user \in Requesters, channelId \in ChannelIds, userId \in Requesters,
          action \in Actions :
         StartTogglePendingUser(p, user, TogglePendingInput(channelId, userId, action))
    \/ \E user \in Requesters, slug \in Slugs, isPrivate \in BOOLEAN :
         StartCreateChannel(p, user, CreateChannelInput("k1", slug, isPrivate))
    \/ \E user \in Requesters, channelId \in ChannelIds, userId \in Requesters :
         StartUnblockUser(p, user, UnblockInput(channelId, userId))
    \/ \E user \in Requesters, channelId \in ChannelIds : StartDeleteChannel(p, user, channelId)
    \/ Acknowledge(p)
    \/ ContinueLeave(p)
    \/ ContinueJoin(p)
    \/ ContinuePending(p)
    \/ ContinueApprove(p)
    \/ ContinueLookup(p)
    \/ ContinueCreate(p)
    \/ ContinueDelete(p)
    \/ ContinueThreads(p)
    \/ Return(p)

SpecC == InitC /\ [][NextC]_vars

\* ------------------------------------------------------------------ claims
\* vocabulary of the claims, over the stored records
Status(db, u, c) ==
  LET p == db.usersChannels[u][c] IN
  IF p.isMember THEN "Member" ELSE IF p.isPending THEN "Pending"
  ELSE IF p.isBlocked THEN "Blocked" ELSE "None"

CommunityOf(c) == channels[c].communityId

\* u holds CommunityMembership Member or Owner in k
HoldsCommunityMembership(u, k) ==
  usersCommunities[u][k].isMember \/ usersCommunities[u][k].isOwner

\* a gateway write or queue job of the given name is among the calls
IsFn(call, fn) == call.fn = fn
Issued(cs, fn) == \E i \in 1 .. Len(cs) : IsFn(cs[i], fn)

\* channel permissions of everybody but (u, c) are as before the step
OtherChannelPermissionsUnchanged(u, c) ==
  \A w \in Users, d \in ChannelIds :
    (w # u \/ d # c) => usersChannels'[w][d] = usersChannels[w][d]

\* C1: after any sequence of commands, every user who is Member of a
\* non-deleted channel holds CommunityMembership Member or Owner in the
\* channel's community.
C1_MemberImpliesCommunityMembership ==
  \A u \in Users, c \in ChannelIds :
    (Live(Db, c) /\ Status(Db, u, c) = "Member")
      => HoldsCommunityMembership(u, CommunityOf(c))

\* C2: a leave (toggleChannelSubscription by a non-owner Member of a
\* non-deleted channel) sets the user's status to None and removes the
\* community membership exactly when the user is left with Member status in no
\* other channel of the same community.
C2_LeaveRemovesCommunityIffLastChannel ==
  [][ (/\ cmd'.op = "toggleChannelSubscription"
       /\ cmd'.user \in Users
       /\ Live(Db, cmd'.channelId)
       /\ Status(Db, cmd'.user, cmd'.channelId) = "Member"
       /\ ~usersChannels[cmd'.user][cmd'.channelId].isOwner)
      =>
      LET u == cmd'.user
          c == cmd'.channelId
          k == CommunityOf(c)
          other == \E d \in ChannelIds \ {c} :
                     /\ Live(Db, d) /\ CommunityOf(d) = k
                     /\ usersChannels'[u][d].isMember
      IN /\ ~usersChannels'[u][c].isMember
         /\ ~usersChannels'[u][c].isPending
         /\ ~usersChannels'[u][c].isBlocked
         /\ OtherChannelPermissionsUnchanged(u, c)
         /\ IF other
            THEN /\ usersCommunities' = usersCommunities
                 /\ ~Issued(calls', "removeMemberInCommunity")
            ELSE /\ ~usersCommunities'[u][k].isMember
                 /\ usersCommunities' =
                      [usersCommunities EXCEPT ![u][k].isMember = FALSE]
                 /\ Issued(calls', "removeMemberInCommunity")
    ]_vars

\* C2 witness: a user has left the last channel of one community, and with it
\* the community, while still a member of a channel of another community.
C2_Witness ==
  /\ cmd.op = "toggleChannelSubscription"
  /\ ~ret.isError
  /\ Issued(calls, "removeMemberInChannel")
  /\ Issued(calls, "removeMemberInCommunity")
  /\ ~usersCommunities[cmd.user][CommunityOf(cmd.channelId)].isMember
  /\ \E d \in ChannelIds :
       /\ Live(Db, d) /\ CommunityOf(d) # CommunityOf(cmd.channelId)
       /\ usersChannels[cmd.user][d].isMember

\* C3: a join of a public channel by a user with status None makes the user
\* Member; a user new to the community also becomes community Member and
\* Member of every default channel; for a community member no grant and no
\* default-channel join is issued.
C3_JoinPublicCascade ==
  [][ (/\ cmd'.op = "toggleChannelSubscription"
       /\ cmd'.user \in Users
       /\ Live(Db, cmd'.channelId)
       /\ ~channels[cmd'.channelId].isPrivate
       /\ Status(Db, cmd'.user, cmd'.channelId) = "None"
       /\ ~usersChannels[cmd'.user][cmd'.channelId].isOwner)
      =>
      LET u == cmd'.user
          c == cmd'.channelId
          k == CommunityOf(c)
      IN /\ ~ret'.isError
         /\ usersChannels'[u][c].isMember
         /\ ~usersChannels'[u][c].isPending
         /\ ~usersChannels'[u][c].isBlocked
         /\ ~HoldsCommunityMembership(u, k) =>
              /\ usersCommunities'[u][k].isMember
              /\ \A d \in DefaultChannels(Db, k) :
                   Status([usersChannels |-> usersChannels'], u, d) = "Member"
         /\ usersCommunities[u][k].isMember =>
              /\ usersCommunities' = usersCommunities
              /\ OtherChannelPermissionsUnchanged(u, c)
              /\ ~Issued(calls', "createMemberInCommunity")
              /\ ~Issued(calls', "createMemberInDefaultChannels")
    ]_vars

\* C3 witness: a user joined a public channel, was new to the community and
\* was made member of a default channel other than the joined one.
C3_Witness ==
  /\ cmd.op = "toggleChannelSubscription"
  /\ ~ret.isError
  /\ Issued(calls, "createMemberInChannel")
  /\ Issued(calls, "createMemberInDefaultChannels")
  /\ usersCommunities[cmd.user][CommunityOf(cmd.channelId)].isMember
  /\ \E d \in DefaultChannels(Db, CommunityOf(cmd.channelId)) \ {cmd.channelId} :
       usersChannels[cmd.user][d].isMember

\* C4: an approve by an actor who owns channel and community makes the pending
\* user Member, and a pending user without community membership becomes
\* community Member and Member of every default channel.
C4_ApproveGrantsCommunityToApprovedUser ==
  [][ (/\ cmd'.op = "togglePendingUser"
       /\ cmd'.input.action = "approve"
       /\ cmd'.user \in Users
       /\ Live(Db, cmd'.input.channelId)
       /\ Status(Db, cmd'.input.userId, cmd'.input.channelId) = "Pending"
       /\ usersChannels[cmd'.user][cmd'.input.channelId].isOwner
       /\ usersCommunities[cmd'.user][CommunityOf(cmd'.input.channelId)].isOwner)
      =>
      LET v == cmd'.input.userId
          c == cmd'.input.channelId
          k == CommunityOf(c)
      IN /\ usersChannels'[v][c].isMember
         /\ ~HoldsCommunityMembership(v, k) =>
              /\ usersCommunities'[v][k].isMember
              /\ \A d \in DefaultChannels(Db, k) : usersChannels'[v][d].isMember
    ]_vars

\* C5: unblockUser on a Blocked user succeeds (status None) for an actor who
\* owns the channel or the community, and is rejected without a change for an
\* actor with neither role and for a target that is not Blocked.
C5_UnblockByEitherOwner ==
  [][ (/\ cmd'.op = "unblockUser"
       /\ cmd'.user \in Users
       /\ Live(Db, cmd'.input.channelId))
      =>
      LET actor == cmd'.user
          v == cmd'.input.userId
          c == cmd'.input.channelId
          authorized == \/ usersChannels[actor][c].isOwner
                        \/ usersCommunities[actor][CommunityOf(c)].isOwner
      IN IF Status(Db, v, c) = "Blocked" /\ authorized
         THEN /\ ~ret'.isError
              /\ Status([usersChannels |-> usersChannels'], v, c) = "None"
         ELSE /\ ret'.isError
              /\ UNCHANGED <<channels, usersChannels, usersCommunities, threads>>
    ]_vars

\* C6: editChannel on a non-deleted channel applies the edit for an actor who
\* owns the channel or the community and is rejected without a write otherwise.
C6_EditByEitherOwner ==
  [][ (/\ cmd'.op = "editChannel"
       /\ cmd'.user \in Users
       /\ Live(Db, cmd'.input.channelId))
      =>
      LET actor == cmd'.user
          c == cmd'.input.channelId
          authorized == \/ usersChannels[actor][c].isOwner
                        \/ usersCommunities[actor][CommunityOf(c)].isOwner
      IN IF authorized
         THEN /\ ~ret'.isError
              /\ Issued(calls', "editChannel")
         ELSE /\ ret'.isError
              /\ calls' = <<>>
    ]_vars

\* C7: an authorized editChannel that turns a private channel public makes
\* every Pending user of the channel Member, enqueues no approval notification
\* and grants no community membership.
C7_EditToPublicApprovesPending ==
  [][ (/\ cmd'.op = "editChannel"
       /\ cmd'.user \in Users
       /\ Live(Db, cmd'.input.channelId)
       /\ channels[cmd'.input.channelId].isPrivate
       /\ ~cmd'.input.isPrivate
       /\ \/ usersChannels[cmd'.user][cmd'.input.channelId].isOwner
          \/ usersCommunities[cmd'.user][CommunityOf(cmd'.input.channelId)].isOwner)
      =>
      /\ \A v \in Users :
           Status(Db, v, cmd'.input.channelId) = "Pending"
             => usersChannels'[v][cmd'.input.channelId].isMember
      /\ ~Issued(calls', "addQueue: private channel request approved")
      /\ ~Issued(calls', "createMemberInCommunity")
    ]_vars

\* C8: a block of a Pending user by an actor who owns the channel or the
\* community sets the user's status to Blocked and changes no community
\* membership and no other channel membership.
C8_BlockByEitherOwner ==
  [][ (/\ cmd'.op = "togglePendingUser"
       /\ cmd'.input.action = "block"
       /\ cmd'.user \in Users
       /\ Live(Db, cmd'.input.channelId)
       /\ Status(Db, cmd'.input.userId, cmd'.input.channelId) = "Pending"
       /\ \/ usersChannels[cmd'.user][cmd'.input.channelId].isOwner
          \/ usersCommunities[cmd'.user][CommunityOf(cmd'.input.channelId)].isOwner)
      =>
      /\ Status([usersChannels |-> usersChannels'],
                cmd'.input.userId, cmd'.input.channelId) = "Blocked"
      /\ usersCommunities' = usersCommunities
      /\ OtherChannelPermissionsUnchanged(cmd'.input.userId, cmd'.input.channelId)
    ]_vars

\* C9: toggleChannelSubscription by a user who is Blocked in the channel or
\* owns it is rejected with an error and changes no membership.
C9_BlockedAndOwnerRejected ==
  [][ (/\ cmd'.op = "toggleChannelSubscription"
       /\ cmd'.user \in Users
       /\ \/ usersChannels[cmd'.user][cmd'.channelId].isBlocked
          \/ usersChannels[cmd'.user][cmd'.channelId].isOwner)
      =>
      /\ ret'.isError
      /\ calls' = <<>>
      /\ usersChannels' = usersChannels
      /\ usersCommunities' = usersCommunities
    ]_vars

\* C9 witness: a Blocked user called toggleChannelSubscription and got the
\* permission error.
C9_Witness ==
  /\ cmd.op = "toggleChannelSubscription"
  /\ cmd.user \in Users
  /\ usersChannels[cmd.user][cmd.channelId].isBlocked
  /\ ret = UserError("You don't have permission to do that.")

\* C10: when an approve succeeded, the same approve run again on the records
\* it left returns the 'not pending' error, issues no write and no queue job
\* and leaves every record as it is.
C10_SecondApproveRejected ==
  [][ (/\ cmd'.op = "togglePendingUser"
       /\ cmd'.input.action = "approve"
       /\ ~ret'.isError)
      =>
      (LET again == TogglePendingUserCmd(Db, cmd.user, cmd.input) IN
         /\ again.ret =
              UserError("This user is not currently pending access to this channel.")
         /\ again.calls = <<>>
         /\ again.db = Db)'
    ]_vars

\* C10 witness: an approve of a pending user succeeded.
C10_Witness ==
  /\ cmd.op = "togglePendingUser"
  /\ cmd.input.action = "approve"
  /\ ~ret.isError
  /\ Issued(calls, "approvePendingUserInChannel")
  /\ usersChannels[cmd.input.userId][cmd.input.channelId].isMember

\* C11: once a deleteChannel by the channel owner or the community owner of a
\* non-deleted channel has completed, the channel is soft-deleted, every
\* user's status in it is None and every thread that belonged to it is
\* soft-deleted, whether the channel held threads or none.
C11_DeleteRemovesChannelMembersThreads ==
  [][ (/\ cmd'.op = "deleteChannel"
       /\ cmd'.user \in Users
       /\ Live(Db, cmd'.channelId)
       /\ \/ usersChannels[cmd'.user][cmd'.channelId].isOwner
          \/ usersCommunities[cmd'.user][CommunityOf(cmd'.channelId)].isOwner)
      =>
      /\ ~ret'.isError
      /\ channels'[cmd'.channelId].exists
      /\ channels'[cmd'.channelId].deletedAt
      /\ \A u \in Users :
           LET p == usersChannels'[u][cmd'.channelId] IN
           ~p.isMember /\ ~p.isPending /\ ~p.isBlocked
      /\ \A t \in ThreadIds :
           threads[t].channelId = cmd'.channelId => threads'[t].deletedAt
    ]_vars

\* reached: the default channel with its two threads and a member was deleted
C11_Witness ==
  /\ cmd.op = "deleteChannel"
  /\ ~ret.isError
  /\ channels[cmd.channelId].deletedAt
  /\ Cardinality({i \in 1 .. Len(calls) : IsFn(calls[i], "deleteThread")}) = 2
  /\ \A t \in ThreadIds : threads[t].channelId = cmd.channelId /\ threads[t].deletedAt
  /\ \A u \in Users : Status(Db, u, cmd.channelId) = "None"

\* C12: createChannel leaves no observable state in which the channel exists
\* but its creator is not yet its owner and member: whenever the channel row
\* of a createChannel request is stored, so is the creator's Owner and Member
\* relationship.
C12_ChannelNeverWithoutOwner ==
  \A p \in ProcIds :
    (/\ procs[p].op = "createChannel"
     /\ procs[p].channelId \in ChannelIds
     /\ channels[procs[p].channelId].exists)
    =>
    /\ usersChannels[procs[p].user][procs[p].channelId].isOwner
    /\ usersChannels[procs[p].user][procs[p].channelId].isMember

\* the outcomes of C12 for a createChannel that runs alone: it succeeds exactly
\* when the actor owns an existing community and the slug is neither reserved
\* nor used by a live channel of that community; a failure creates nothing, a
\* success stores the channel with the creator as Owner and Member
CreateChannelOutcome ==
  [][ cmd'.op = "createChannel"
      =>
      LET input == cmd'.input
          allowed ==
            /\ cmd'.user \in Users
            /\ input.communityId \in Communities
            /\ usersCommunities[cmd'.user][input.communityId].isOwner
            /\ ~channelSlugIsBlacklisted(input.slug)
            /\ ~\E c \in ChannelIds :
                  Live(Db, c) /\ channels[c].slug = input.slug
                              /\ channels[c].communityId = input.communityId
      IN
      /\ ~ret'.isError <=> allowed
      /\ ret'.isError =>
           /\ calls' = <<>>
           /\ UNCHANGED <<channels, usersChannels, usersCommunities, threads>>
      /\ ~ret'.isError =>
           \E c \in ChannelIds :
             /\ ~channels[c].exists
             /\ channels'[c].exists /\ ~channels'[c].deletedAt
             /\ channels'[c].slug = input.slug
             /\ channels'[c].communityId = input.communityId
             /\ usersChannels'[cmd'.user][c].isOwner
             /\ usersChannels'[cmd'.user][c].isMember
    ]_vars

\* the channel a command is aimed at (0: the command names no channel)
TargetChannel(c) ==
  IF c.op \in {"deleteChannel", "toggleChannelSubscription", "toggleChannelNotifications"}
  THEN c.channelId
  ELSE IF c.op \in {"editChannel", "togglePendingUser", "unblockUser"}
  THEN c.input.channelId
  ELSE IF c.op = "sendChannelEmailInvites" THEN c.input.id
  ELSE 0

RecordsAsBefore == UNCHANGED <<channels, usersChannels, usersCommunities, threads>>

\* C13: a rejected command of the module (no signed-in actor, missing or
\* deleted target channel, an error result, or a toggleChannelNotifications
\* by somebody who is not an unblocked Member) issued no gateway write and no
\* notification, and the stored records are exactly as before.
C13_RejectedCommandWritesNothing ==
  [][ (/\ cmd'.op # "none"
       /\ \/ ret'.isError
          \/ cmd'.user = Null
          \/ TargetChannel(cmd') \in ChannelIds /\ ~Live(Db, TargetChannel(cmd'))
          \/ /\ cmd'.op = "toggleChannelNotifications"
             /\ cmd'.user \in Users
             /\ \/ ~usersChannels[cmd'.user][cmd'.channelId].isMember
                \/ usersChannels[cmd'.user][cmd'.channelId].isBlocked)
      =>
      /\ calls' = <<>>
      /\ RecordsAsBefore
    ]_vars

\* reached: notifications toggled by a user who is blocked in the live channel
C13_Witness ==
  /\ cmd.op = "toggleChannelNotifications"
  /\ cmd.user \in Users
  /\ Live(Db, cmd.channelId)
  /\ Status(Db, cmd.user, cmd.channelId) = "Blocked"
  /\ calls = <<>>

ChannelCommands ==
  {"deleteChannel", "editChannel", "toggleChannelSubscription", "toggleChannelNotifications",
   "togglePendingUser", "unblockUser", "sendChannelEmailInvites"}

ChannelNotFound == {UserError("Channel doesn't exist"), UserError("This channel doesn't exist")}

\* C14: every command aimed at a channel that does not exist or is
\* soft-deleted returns the channel-not-found error and writes nothing,
\* whatever the permissions of the signed-in actor and of the target user.
C14_MissingChannelIsNotFound ==
  [][ (/\ cmd'.op \in ChannelCommands
       /\ cmd'.user \in Users
       /\ ~Live(Db, TargetChannel(cmd')))
      =>
      /\ ret' \in ChannelNotFound
      /\ calls' = <<>>
      /\ RecordsAsBefore
    ]_vars

\* C15: toggleChannelNotifications by an unblocked Member flips that user's
\* receiveNotifications flag in the channel and changes nothing else; by
\* anybody else it changes nothing and resolves to an error value, not to
\* the channel record.
C15_NotificationsToggleOrError ==
  [][ (cmd'.op = "toggleChannelNotifications" /\ cmd'.user \in Users)
      =>
      LET u == cmd'.user
          c == cmd'.channelId
          p == usersChannels[u][c]
      IN
      IF p.isMember /\ ~p.isBlocked
      THEN /\ usersChannels' =
                [usersChannels EXCEPT ![u][c].receiveNotifications = ~p.receiveNotifications]
           /\ UNCHANGED <<channels, usersCommunities, threads>>
      ELSE /\ RecordsAsBefore
           /\ ret'.isError
    ]_vars

\* C16: toggleChannelSubscription by a user with status None on a non-deleted
\* private channel sets the status to Pending, enqueues exactly one 'private
\* channel request sent' notification and changes neither a community
\* membership nor a status in another channel.
C16_PrivateJoinBecomesPending ==
  [][ (/\ cmd'.op = "toggleChannelSubscription"
       /\ cmd'.user \in Users
       /\ Live(Db, cmd'.channelId)
       /\ channels[cmd'.channelId].isPrivate
       /\ Status(Db, cmd'.user, cmd'.channelId) = "None"
       /\ ~usersChannels[cmd'.user][cmd'.channelId].isOwner)
      =>
      /\ ~ret'.isError
      /\ usersChannels'[cmd'.user][cmd'.channelId].isPending
      /\ ~usersChannels'[cmd'.user][cmd'.channelId].isMember
      /\ ~usersChannels'[cmd'.user][cmd'.channelId].isBlocked
      /\ Cardinality({i \in 1 .. Len(calls') :
                        IsFn(calls'[i], "addQueue: private channel request sent")}) = 1
      /\ \A i \in 1 .. Len(calls') : IsJob(calls'[i]) =>
           IsFn(calls'[i], "addQueue: private channel request sent")
      /\ usersCommunities' = usersCommunities
      /\ OtherChannelPermissionsUnchanged(cmd'.user, cmd'.channelId)
      /\ UNCHANGED <<channels, threads>>
    ]_vars

\* reached: an outsider has asked for access to a private channel
C16_Witness ==
  /\ cmd.op = "toggleChannelSubscription"
  /\ cmd.user \in Users
  /\ Live(Db, cmd.channelId)
  /\ channels[cmd.channelId].isPrivate
  /\ Status(Db, cmd.user, cmd.channelId) = "Pending"
  /\ Issued(calls, "addQueue: private channel request sent")
  /\ ~HoldsCommunityMembership(cmd.user, CommunityOf(cmd.channelId))

\* C17: in a private join request and in an approve, the notification is
\* enqueued only after every membership write of the same command has been
\* acknowledged: no request has enqueued its notification while one of its
\* writes is still outstanding.
C17_NotificationAfterWrites ==
  \A p \in ProcIds :
    (procs[p].path \in {"request", "approve"} /\ procs[p].jobs # <<>>)
      => procs[p].inflight = {}

\* C18: the leave reads 'member of any channel' only after its removal was
\* acknowledged, and once a leave of one channel and a join of another public
\* channel of the same community by the same user have both completed, a user
\* who is Member of the joined channel still holds the community membership.
C18_ConcurrentJoinNotMissed ==
  /\ \A p \in ProcIds :
       (procs[p].path = "leave" /\ procs[p].pc \in {"returning", "done"})
         => Call("removeMemberInChannel", procs[p].channelId, "-", procs[p].user)
              \notin procs[p].inflight
  /\ \A p, q \in ProcIds :
       (/\ procs[p].path = "leave" /\ procs[p].pc = "done"
        /\ procs[q].path = "join" /\ procs[q].pc = "done"
        /\ procs[p].user = procs[q].user
        /\ procs[p].channelId # procs[q].channelId
        /\ procs[p].channelToEvaluate.communityId = procs[q].channelToEvaluate.communityId
        /\ usersChannels[procs[q].user][procs[q].channelId].isMember)
       => HoldsCommunityMembership(procs[q].user, procs[q].channelToEvaluate.communityId)

\* request p has decided to grant a community membership with its cascade
Cascading(p) ==
  \/ procs[p].pc = "granting"
  \/ /\ procs[p].pc = "approving"
     /\ \E w \in procs[p].inflight :
          w.fn \in {"createMemberInCommunity", "createMemberInDefaultChannels"}

\* C19: when a public join or an approve grants the community membership for
\* the first time, the Member status in the channel, the community membership
\* and the Member status in every default channel are visible together or not
\* at all: no request can read a state with only part of them.
C19_CascadeVisibleTogether ==
  \A p \in ProcIds :
    Cascading(p) =>
      LET u == IF procs[p].path = "approve" THEN procs[p].userId ELSE procs[p].user
          k == procs[p].channelToEvaluate.communityId
          inChannel == usersChannels[u][procs[p].channelId].isMember
          inCommunity == usersCommunities[u][k].isMember
          inDefaults == \A d \in DefaultChannels(Db, k) : usersChannels[u][d].isMember
      IN \/ inChannel /\ inCommunity /\ inDefaults
         \/ ~inChannel /\ ~inCommunity

C21_BlockedLeftOnlyByUnblockOrDelete ==
  [][ \A u \in Users, c \in ChannelIds :
        (/\ Status(Db, u, c) = "Blocked"
         /\ ~(/\ usersChannels'[u][c].isBlocked
              /\ ~usersChannels'[u][c].isMember
              /\ ~usersChannels'[u][c].isPending))
        =>
        /\ ~usersChannels'[u][c].isBlocked
        /\ ~usersChannels'[u][c].isMember
        /\ ~usersChannels'[u][c].isPending
        /\ \E p \in ProcIds :
             \E w \in procs[p].inflight \ procs'[p].inflight :
               \/ /\ procs[p].op = "unblockUser"
                  /\ w = Call("unblockMemberInChannel", c, "-", u)
               \/ /\ procs[p].op = "deleteChannel"
                  /\ w = Call("removeMembersInChannel", c, "-", "-")
    ]_vars

\* C22: in every reachable state, under every interleaving of createChannel
\* requests of community owners, no two non-deleted channels of one community
\* have the same slug.
C22_SlugUniqueInCommunity ==
  \A c, d \in ChannelIds :
    (/\ c # d
     /\ Live(Db, c)
     /\ Live(Db, d)
     /\ channels[c].communityId = channels[d].communityId)
    => channels[c].slug # channels[d].slug

\* C23: deleteChannel never changes a community membership and issues no
\* community-level write, so a user whose only Member channel of a community
\* was the deleted one is still a community Member after the delete.
C23_DeleteKeepsCommunityMembership ==
  [][ cmd'.op = "deleteChannel"
      =>
      /\ usersCommunities' = usersCommunities
      /\ \A i \in 1 .. Len(calls') :
           calls'[i].fn \notin {"removeMemberInCommunity", "createMemberInCommunity"}
    ]_vars

\* reached: a channel was deleted and somebody who is not an owner of its
\* community is still a community Member without being Member of any live
\* channel of that community
C23_Witness ==
  /\ cmd.op = "deleteChannel"
  /\ ~ret.isError
  /\ channels[cmd.channelId].deletedAt
  /\ \E u \in Users :
       LET k == CommunityOf(cmd.channelId) IN
       /\ usersCommunities[u][k].isMember
       /\ ~usersCommunities[u][k].isOwner
       /\ ~userIsMemberOfAnyChannelInCommunity(Db, k, u)

====
